---- MODULE Spec2Model ----
(***************************************************************************)
(* Model of config_model: the Value data model (src/src/value.rs) and the  *)
(* Path cursor with its path-tagged errors (src/src/decode.rs).            *)
(*                                                                         *)
(* A Value is a record [tag, val]; text is a TLA+ string, so that the path *)
(* rendering really concatenates characters.  An f64 payload is written as *)
(* an integer number of hundredths (314 stands for 3.14); the code only    *)
(* copies it.  A Table (BTreeMap<String, Value>) is a function from its    *)
(* key set to Values.                                                      *)
(***************************************************************************)
EXTENDS Integers, Sequences, FiniteSets, TLC

VARIABLES root, root_desc, cur, chain, pure, last

vars == <<root, root_desc, cur, chain, pure, last>>

(* Longest component sequence the callers build. *)
MaxPath == 3

-----------------------------------------------------------------------------
(* value.rs: enum Value *)

String(s) == [tag |-> "String", val |-> s]

Integer(i) == [tag |-> "Integer", val |-> i]

Float(f) == [tag |-> "Float", val |-> f]

Boolean(b) == [tag |-> "Boolean", val |-> b]

Datetime(s) == [tag |-> "Datetime", val |-> s]

Array(a) == [tag |-> "Array", val |-> a]

Table(t) == [tag |-> "Table", val |-> t]

(* Option<T> *)
None == [some |-> FALSE]

Some(x) == [some |-> TRUE, val |-> x]

(* same_type taking the two text-carrying variants for one type. *)
same_type_dt(self, other) ==
    \/ self.tag = other.tag
    \/ self.tag \in {"String", "Datetime"} /\ other.tag \in {"String", "Datetime"}

same_type(self, other) ==
    \/ self.tag = "String" /\ other.tag = "String"
    \/ self.tag = "Integer" /\ other.tag = "Integer"
    \/ self.tag = "Float" /\ other.tag = "Float"
    \/ self.tag = "Boolean" /\ other.tag = "Boolean"
    \/ self.tag = "Datetime" /\ other.tag = "Datetime"
    \/ self.tag = "Array" /\ other.tag = "Array"
    \/ self.tag = "Table" /\ other.tag = "Table"

type_str(self) ==
    CASE self.tag = "String" -> "string"
      [] self.tag = "Integer" -> "integer"
      [] self.tag = "Float" -> "float"
      [] self.tag = "Boolean" -> "boolean"
      [] self.tag = "Datetime" -> "datetime"
      [] self.tag = "Array" -> "array"
      [] self.tag = "Table" -> "table"

Value_as_str(self) == IF self.tag = "String" THEN Some(self.val) ELSE None

Value_as_integer(self) == IF self.tag = "Integer" THEN Some(self.val) ELSE None

Value_as_float(self) == IF self.tag = "Float" THEN Some(self.val) ELSE None

Value_as_bool(self) == IF self.tag = "Boolean" THEN Some(self.val) ELSE None

(* as_datetime accepting any text-carrying variant. *)
Value_as_datetime_text(self) ==
    IF self.tag \in {"Datetime", "String"} THEN Some(self.val) ELSE None

Value_as_datetime(self) == IF self.tag = "Datetime" THEN Some(self.val) ELSE None

Value_as_slice(self) == IF self.tag = "Array" THEN Some(self.val) ELSE None

Value_as_table(self) == IF self.tag = "Table" THEN Some(self.val) ELSE None

-----------------------------------------------------------------------------
(* decode.rs: Property, Error, At, Result *)

Property(name, desc) == [name |-> name, desc |-> desc]

ExpectedTable(desc) == [kind |-> "ExpectedTable", desc |-> desc]

ExpectedString(desc) == [kind |-> "ExpectedString", desc |-> desc]

ExpectedInteger(desc) == [kind |-> "ExpectedInteger", desc |-> desc]

ExpectedFloat(desc) == [kind |-> "ExpectedFloat", desc |-> desc]

ExpectedBool(desc) == [kind |-> "ExpectedBool", desc |-> desc]

ExpectedDatetime(desc) == [kind |-> "ExpectedDatetime", desc |-> desc]

ExpectedSlice(desc) == [kind |-> "ExpectedSlice", desc |-> desc]

ExpectedProperty(property) == [kind |-> "ExpectedProperty", property |-> property]

(* Error::at *)
at(self, path) == [error |-> self, path |-> path]

Ok(x) == [ok |-> TRUE, val |-> x]

Err(e) == [ok |-> FALSE, err |-> e]

(* Option::ok_or_else *)
ok_or_else(opt, e) == IF opt.some THEN Ok(opt.val) ELSE Err(e)

-----------------------------------------------------------------------------
(* decode.rs: struct Path and its methods *)

Path(path, value, desc) == [path |-> path, value |-> value, desc |-> desc]

(* The loop of path_as_string: i is the index of the next component, result
   and first are the loop's two locals. *)
(* path_loop_lead: the loop without its first-component case. *)
RECURSIVE path_loop_lead(_, _, _, _)
path_loop_lead(path, i, result, first) ==
    IF i > Len(path) THEN result
    ELSE path_loop_lead(path, i + 1, (result \o ".") \o path[i], FALSE)

RECURSIVE path_loop(_, _, _, _)
path_loop(path, i, result, first) ==
    IF i > Len(path) THEN result
    ELSE IF first THEN path_loop(path, i + 1, result \o path[i], FALSE)
    ELSE path_loop(path, i + 1, (result \o ".") \o path[i], FALSE)

path_as_string(path) == path_loop(path, 1, "", TRUE)

(* impl Display for Path: self.to_string() *)
to_string(self) == path_as_string(self.path)

new(value, desc) == Path(<<>>, value, desc)

new_at(value, path, desc) == Path(path, value, desc)

(* clone_with restarting at the root path. *)
clone_with_root(self, value) == Path(<<>>, value, self.desc)

clone_with(self, value) == Path(self.path, value, self.desc)

components(self) == self.path

value(self) == self.value

description(self) == self.desc

Path_as_str(self) ==
    ok_or_else(Value_as_str(self.value), at(ExpectedTable(self.desc), to_string(self)))

Path_as_integer(self) ==
    ok_or_else(Value_as_integer(self.value), at(ExpectedInteger(self.desc), to_string(self)))

Path_as_float(self) ==
    ok_or_else(Value_as_float(self.value), at(ExpectedFloat(self.desc), to_string(self)))

Path_as_bool(self) ==
    ok_or_else(Value_as_bool(self.value), at(ExpectedBool(self.desc), to_string(self)))

Path_as_datetime(self) ==
    ok_or_else(Value_as_datetime(self.value), at(ExpectedDatetime(self.desc), to_string(self)))

Path_as_slice(self) ==
    ok_or_else(Value_as_slice(self.value), at(ExpectedSlice(self.desc), to_string(self)))

Path_as_table(self) ==
    ok_or_else(Value_as_table(self.value), at(ExpectedTable(self.desc), to_string(self)))

(* BTreeMap::get *)
get(table, key) == IF key \in DOMAIN table THEN Some(table[key]) ELSE None

(* table_property reporting a non-table at the extended path, with the
   property's description. *)
table_property_early(self, property_name, property_desc) ==
    LET path == Append(self.path, property_name)
        table == Value_as_table(self.value)
    IN  IF ~table.some
        THEN Err(at(ExpectedTable(property_desc), path_as_string(path)))
        ELSE LET found == get(table.val, property_name)
             IN  IF found.some
                 THEN Ok(Path(path, found.val, property_desc))
                 ELSE Err(at(ExpectedProperty(Property(property_name, property_desc)),
                             path_as_string(path)))

(* table_property reporting a missing property at the parent's path. *)
table_property_parent(self, property_name, property_desc) ==
    LET path == Append(self.path, property_name)
        table == Path_as_table(self)
    IN  IF ~table.ok THEN table
        ELSE LET found == get(table.val, property_name)
             IN  IF found.some
                 THEN Ok(Path(path, found.val, property_desc))
                 ELSE Err(at(ExpectedProperty(Property(property_name, property_desc)),
                             path_as_string(self.path)))

(* table_property keeping the parent's description on the child. *)
table_property_keepdesc(self, property_name, property_desc) ==
    LET path == Append(self.path, property_name)
        table == Path_as_table(self)
    IN  IF ~table.ok THEN table
        ELSE LET found == get(table.val, property_name)
             IN  IF found.some
                 THEN Ok(Path(path, found.val, self.desc))
                 ELSE Err(at(ExpectedProperty(Property(property_name, property_desc)),
                             path_as_string(path)))

(* table_property extending the path without descending into the child. *)
table_property_stay(self, property_name, property_desc) ==
    LET path == Append(self.path, property_name)
        table == Path_as_table(self)
    IN  IF ~table.ok THEN table
        ELSE LET found == get(table.val, property_name)
             IN  IF found.some
                 THEN Ok(Path(path, self.value, property_desc))
                 ELSE Err(at(ExpectedProperty(Property(property_name, property_desc)),
                             path_as_string(path)))

table_property(self, property_name, property_desc) ==
    LET path == Append(self.path, property_name)
        table == Path_as_table(self)
    IN  IF ~table.ok THEN table
        ELSE LET found == get(table.val, property_name)
             IN  IF found.some
                 THEN Ok(Path(path, found.val, property_desc))
                 ELSE Err(at(ExpectedProperty(Property(property_name, property_desc)),
                             path_as_string(path)))

(* join forgetting to push the new component. *)
join_nopush(self, v, property_name, property_desc) ==
    Path(self.path, v, property_desc)

join(self, v, property_name, property_desc) ==
    LET path == Append(self.path, property_name)
    IN  Path(path, v, property_desc)

-----------------------------------------------------------------------------
(* The callers' inputs. *)

Names == {"a", "b", "c", "x"}

Descs == {"A", "B"}

(* Trees handed to Path::new. *)
Roots ==
    { Table([a |-> Table([b |-> Integer(5)]), x |-> String("hello")]),
      Table([a |-> Array(<<Integer(5), String("hello")>>),
             b |-> Datetime("1979-05-27T07:32:00Z"),
             c |-> Table([a |-> Boolean(TRUE), c |-> Float(314)])]),
      Table(<<>>),
      Integer(5) }

(* Values obtained elsewhere and handed to new_at, clone_with and join. *)
Grafts == { String("1979-05-27T07:32:00Z"), Float(-50), Table([b |-> Integer(7)]) }

RECURSIVE SeqsUpTo(_, _)
SeqsUpTo(S, n) ==
    IF n = 0 THEN {<<>>}
    ELSE LET shorter == SeqsUpTo(S, n - 1)
         IN  shorter \cup {Append(q, e) : q \in shorter, e \in S}

(* Component sequences handed to new_at: sequences of names, and some whose
   components are empty or hold the separator. *)
Paths ==
    SeqsUpTo({"a", "c"}, MaxPath - 1)
        \cup {<<"server", "port">>, <<"a.b">>, <<"a.b", "c">>, <<"">>, <<"", "">>, <<".", "a">>}

(* Values the projections of value.rs are applied to: every variant, and
   two payloads of the variants that carry text or children. *)
Values ==
    { String("hello"), String("1979-05-27T07:32:00Z"), Integer(5), Float(314),
      Boolean(TRUE), Datetime("1979-05-27T07:32:00Z"), Datetime("hello"),
      Array(<<>>), Array(<<Integer(5), String("hello")>>),
      Table(<<>>), Table([a |-> Table([b |-> Integer(5)]), x |-> String("hello")]) }

-----------------------------------------------------------------------------
(* State: root is the tree last given to Path::new and root_desc the
   description given with it, cur the cursor the caller
   holds, last the most recent call with its arguments and result.  pure says
   that cur was reached from Path::new(root, _) by successful table_property
   calls only, and chain lists those calls. *)

Init ==
    \E v \in Roots, d \in Descs :
        /\ root = v
        /\ root_desc = d
        /\ cur = new(v, d)
        /\ chain = <<>>
        /\ pure = TRUE
        /\ last = [op |-> "new", value |-> v, desc |-> d, out |-> new(v, d)]

New(v, d) ==
    /\ root' = v
    /\ root_desc' = d
    /\ cur' = new(v, d)
    /\ chain' = <<>>
    /\ pure' = TRUE
    /\ last' = [op |-> "new", value |-> v, desc |-> d, out |-> new(v, d)]

NewAt(v, p, d) ==
    /\ cur' = new_at(v, p, d)
    /\ pure' = FALSE
    /\ chain' = <<>>
    /\ last' = [op |-> "new_at", value |-> v, path |-> p, desc |-> d,
                out |-> new_at(v, p, d)]
    /\ UNCHANGED <<root, root_desc>>

CloneWith(v) ==
    /\ cur' = clone_with(cur, v)
    /\ pure' = FALSE
    /\ chain' = <<>>
    /\ last' = [op |-> "clone_with", self |-> cur, value |-> v,
                out |-> clone_with(cur, v)]
    /\ UNCHANGED <<root, root_desc>>

TableProperty(n, d) ==
    LET out == table_property(cur, n, d)
    IN  /\ Len(cur.path) < MaxPath
        /\ last' = [op |-> "table_property", self |-> cur, name |-> n, desc |-> d,
                    out |-> out]
        /\ cur' = IF out.ok THEN out.val ELSE cur
        /\ chain' = IF out.ok /\ pure THEN Append(chain, Property(n, d)) ELSE chain
        /\ UNCHANGED <<root, root_desc, pure>>

Join(v, n, d) ==
    /\ Len(cur.path) < MaxPath
    /\ cur' = join(cur, v, n, d)
    /\ pure' = FALSE
    /\ chain' = <<>>
    /\ last' = [op |-> "join", self |-> cur, value |-> v, name |-> n, desc |-> d,
                out |-> join(cur, v, n, d)]
    /\ UNCHANGED <<root, root_desc>>

Extract(op, out) ==
    /\ last' = [op |-> op, self |-> cur, out |-> out]
    /\ UNCHANGED <<root, root_desc, cur, chain, pure>>

AsStr == Extract("as_str", Path_as_str(cur))

AsInteger == Extract("as_integer", Path_as_integer(cur))

AsFloat == Extract("as_float", Path_as_float(cur))

AsBool == Extract("as_bool", Path_as_bool(cur))

AsDatetime == Extract("as_datetime", Path_as_datetime(cur))

AsSlice == Extract("as_slice", Path_as_slice(cur))

AsTable == Extract("as_table", Path_as_table(cur))

Display == Extract("to_string", to_string(cur))

Accessors ==
    Extract("accessors",
            [components |-> components(cur), value |-> value(cur),
             description |-> description(cur)])

Next ==
    \/ \E v \in Roots, d \in Descs : New(v, d)
    \/ \E v \in Grafts, p \in Paths, d \in Descs : NewAt(v, p, d)
    \/ \E v \in Grafts : CloneWith(v)
    \/ \E n \in Names, d \in Descs : TableProperty(n, d)
    \/ \E v \in Grafts, n \in Names, d \in Descs : Join(v, n, d)
    \/ AsStr
    \/ AsInteger
    \/ AsFloat
    \/ AsBool
    \/ AsDatetime
    \/ AsSlice
    \/ AsTable
    \/ Display
    \/ Accessors

Spec == Init /\ [][Next]_vars

-----------------------------------------------------------------------------
(* The projections of value.rs on their own: the caller applies type_str and
   the seven projectors to one value, or same_type to the pairs of three. *)

ValueProject(v) ==
    /\ last' = [op |-> "project", value |-> v, type_str |-> type_str(v),
                as_str |-> Value_as_str(v), as_integer |-> Value_as_integer(v),
                as_float |-> Value_as_float(v), as_bool |-> Value_as_bool(v),
                as_datetime |-> Value_as_datetime(v), as_slice |-> Value_as_slice(v),
                as_table |-> Value_as_table(v)]
    /\ UNCHANGED <<root, root_desc, cur, chain, pure>>

ValueSameType(a, b, c) ==
    /\ last' = [op |-> "same_type", a |-> a, b |-> b, c |-> c,
                aa |-> same_type(a, a), ab |-> same_type(a, b),
                ba |-> same_type(b, a), bc |-> same_type(b, c),
                ac |-> same_type(a, c)]
    /\ UNCHANGED <<root, root_desc, cur, chain, pure>>

NextValue ==
    \/ \E v \in Values : ValueProject(v)
    \/ \E a \in Values, b \in Values, c \in Values : ValueSameType(a, b, c)

InitValue ==
    /\ root = Table(<<>>)
    /\ root_desc = "A"
    /\ cur = new(root, "A")
    /\ chain = <<>>
    /\ pure = TRUE
    /\ last = [op |-> "new", value |-> root, desc |-> "A", out |-> new(root, "A")]

SpecValue == InitValue /\ [][NextValue]_vars

-----------------------------------------------------------------------------
(* Vocabulary of the properties. *)

ExtractOps ==
    {"as_str", "as_integer", "as_float", "as_bool", "as_datetime", "as_slice", "as_table"}

(* The variant an extraction method asks for, and the error kind named after it. *)
VariantOf(op) ==
    CASE op = "as_str" -> "String"
      [] op = "as_integer" -> "Integer"
      [] op = "as_float" -> "Float"
      [] op = "as_bool" -> "Boolean"
      [] op = "as_datetime" -> "Datetime"
      [] op = "as_slice" -> "Array"
      [] op = "as_table" -> "Table"

KindOf(op) ==
    CASE op = "as_str" -> "ExpectedString"
      [] op = "as_integer" -> "ExpectedInteger"
      [] op = "as_float" -> "ExpectedFloat"
      [] op = "as_bool" -> "ExpectedBool"
      [] op = "as_datetime" -> "ExpectedDatetime"
      [] op = "as_slice" -> "ExpectedSlice"
      [] op = "as_table" -> "ExpectedTable"

(* The projector that type_str names. *)
ProjectorOf(name) ==
    CASE name = "string" -> "as_str"
      [] name = "integer" -> "as_integer"
      [] name = "float" -> "as_float"
      [] name = "boolean" -> "as_bool"
      [] name = "datetime" -> "as_datetime"
      [] name = "array" -> "as_slice"
      [] name = "table" -> "as_table"

ExtractBy(op, c) ==
    CASE op = "as_str" -> Path_as_str(c)
      [] op = "as_integer" -> Path_as_integer(c)
      [] op = "as_float" -> Path_as_float(c)
      [] op = "as_bool" -> Path_as_bool(c)
      [] op = "as_datetime" -> Path_as_datetime(c)
      [] op = "as_slice" -> Path_as_slice(c)
      [] op = "as_table" -> Path_as_table(c)

(* Dot-joined rendering, stated from the last component backwards. *)
RECURSIVE Rendering(_)
Rendering(comps) ==
    IF Len(comps) = 0 THEN ""
    ELSE IF Len(comps) = 1 THEN comps[1]
    ELSE (Rendering(SubSeq(comps, 1, Len(comps) - 1)) \o ".") \o comps[Len(comps)]

(* Position in the rendering at which component i starts. *)
RECURSIVE Offset(_, _)
Offset(comps, i) ==
    IF i = 1 THEN 1 ELSE Offset(comps, i - 1) + Len(comps[i - 1]) + 1

(* text is comps laid end to end with exactly one "." between neighbours:
   each component stands unchanged at its position, a single "." precedes
   every component but the first, and text holds nothing else. *)
IsDotJoin(text, comps) ==
    LET n == Len(comps)
    IN  /\ Len(text) = IF n = 0 THEN 0 ELSE Offset(comps, n) + Len(comps[n]) - 1
        /\ \A i \in 1..n :
              /\ Len(comps[i]) > 0 =>
                    SubSeq(text, Offset(comps, i), Offset(comps, i) + Len(comps[i]) - 1)
                        = comps[i]
              /\ i > 1 => SubSeq(text, Offset(comps, i) - 1, Offset(comps, i) - 1) = "."

(* The node reached from v by looking up the keys in turn, if there is one. *)
RECURSIVE Walk(_, _)
Walk(v, keys) ==
    IF Len(keys) = 0 THEN Some(v)
    ELSE IF v.tag # "Table" THEN None
    ELSE IF Head(keys) \notin DOMAIN v.val THEN None
    ELSE Walk(v.val[Head(keys)], Tail(keys))

ChainKeys(c) == [i \in 1..Len(c) |-> c[i].name]

-----------------------------------------------------------------------------
(* C1: an extraction method applied to a cursor whose value is of another
   variant fails with the error kind named after the method (as_str ->
   ExpectedString, ..., as_table -> ExpectedTable), carrying the cursor's
   description and the rendering of the cursor's own components. *)
C1_MismatchErrorKind ==
    last.op \in ExtractOps /\ last.self.value.tag # VariantOf(last.op)
        => last.out = Err(at([kind |-> KindOf(last.op), desc |-> last.self.desc],
                             Rendering(last.self.path)))

(* C2: table_property on a cursor whose value is not a Table fails with
   ExpectedTable carrying the cursor's own description and the rendering of
   its own components; it never yields ExpectedProperty and never succeeds. *)
C2_NonTableFails ==
    last.op = "table_property" /\ last.self.value.tag # "Table"
        => last.out = Err(at(ExpectedTable(last.self.desc), Rendering(last.self.path)))

C2_Witness ==
    /\ last.op = "table_property"
    /\ last.self.value.tag # "Table"
    /\ Len(last.self.path) > 0
    /\ last.desc # last.self.desc
    /\ ~last.out.ok

(* C3: table_property on a Table that lacks property_name fails with
   ExpectedProperty(Property{name, desc: property_description}) at the
   rendering of the components with property_name appended; from a root
   cursor the path is property_name alone. *)
C3_MissingProperty ==
    last.op = "table_property" /\ last.self.value.tag = "Table"
        /\ last.name \notin DOMAIN last.self.value.val
        => /\ last.out = Err(at(ExpectedProperty(Property(last.name, last.desc)),
                                Rendering(Append(last.self.path, last.name))))
           /\ last.self.path = <<>> => last.out.err.path = last.name

C3_Witness ==
    /\ last.op = "table_property"
    /\ last.self.path = <<"a">>
    /\ last.self.value = Table([b |-> Integer(5)])
    /\ last.name = "c"
    /\ ~last.out.ok
    /\ last.out.err.path = "a.c"

(* C4: table_property on a Table that holds property_name succeeds with a
   cursor whose components are the parent's followed by property_name, whose
   value is the table's entry, and whose description is property_description
   alone. *)
C4_PropertyFound ==
    last.op = "table_property" /\ last.self.value.tag = "Table"
        /\ last.name \in DOMAIN last.self.value.val
        => /\ last.out.ok
           /\ components(last.out.val) = Append(last.self.path, last.name)
           /\ value(last.out.val) = last.self.value.val[last.name]
           /\ description(last.out.val) = last.desc
           /\ cur = last.out.val

C4_Witness ==
    /\ last.op = "table_property"
    /\ last.out.ok
    /\ Len(last.self.path) > 0
    /\ last.desc # last.self.desc
    /\ last.out.val.value = Integer(5)

(* C5: of the seven Value projectors exactly one returns a present result,
   namely the one type_str names, and it returns the value's payload; String
   and Datetime are not projected by each other's method. *)
C5_ExactlyOneProjector ==
    last.op = "project"
        => LET present == {m \in ExtractOps : last[m].some}
               named == ProjectorOf(last.type_str)
           IN  /\ present = {named}
               /\ VariantOf(named) = last.value.tag
               /\ last[named].val = last.value.val

C5_Witness ==
    /\ last.op = "project"
    /\ last.value = Datetime("hello")
    /\ last.as_datetime = Some("hello")
    /\ ~last.as_str.some

(* C6: the Display rendering of a cursor, and the path in every error, is the
   components in order with exactly one "." between neighbours: empty for no
   components, the component itself for one, nothing before the first or after
   the last, no component altered. *)
C6_DotJoined ==
    /\ last.op = "to_string"
          => /\ IsDotJoin(last.out, last.self.path)
             /\ last.out = Rendering(last.self.path)
             /\ Len(last.self.path) = 0 => last.out = ""
             /\ Len(last.self.path) = 1 => last.out = last.self.path[1]
    /\ last.op \in ExtractOps /\ ~last.out.ok
          => IsDotJoin(last.out.err.path, last.self.path)
    /\ last.op = "table_property" /\ ~last.out.ok
          => IsDotJoin(last.out.err.path,
                       IF last.out.err.error.kind = "ExpectedProperty"
                       THEN Append(last.self.path, last.name) ELSE last.self.path)

C6_Witness ==
    /\ last.op = "to_string"
    /\ last.self.path = <<"a", "c", "x">>
    /\ last.out = "a.c.x"

(* C7: join always returns a cursor whose components are the parent's
   followed by property_name, whose description is property_description and
   whose value is the given one, whatever the parent's value; and when
   table_property succeeds, join with the child's value gives the same
   cursor. *)
C7_JoinGrafts ==
    /\ last.op = "join"
          => /\ DOMAIN last.out = {"path", "value", "desc"}
             /\ components(last.out) = Append(last.self.path, last.name)
             /\ value(last.out) = last.value
             /\ description(last.out) = last.desc
             /\ cur = last.out
    /\ last.op = "table_property" /\ last.out.ok
          => join(last.self, last.out.val.value, last.name, last.desc) = last.out.val

C7_Witness ==
    /\ last.op = "join"
    /\ last.self.value.tag # "Table"
    /\ Len(last.self.path) > 0
    /\ last.desc # last.self.desc
    /\ last.value # last.self.value

(* C8: clone_with returns a cursor with the same components and description
   and the given value, so that a failing extraction on the clone is reported
   at the original's path with the original's description. *)
C8_CloneKeepsPlace ==
    last.op = "clone_with"
        => /\ components(last.out) = last.self.path
           /\ description(last.out) = last.self.desc
           /\ value(last.out) = last.value
           /\ \A m \in ExtractOps :
                 LET onClone == ExtractBy(m, last.out)
                     onSelf == ExtractBy(m, last.self)
                 IN  ~onClone.ok
                        => /\ onClone.err.path = Rendering(last.self.path)
                           /\ onClone.err.error.desc = last.self.desc
                           /\ ~onSelf.ok => onClone.err = onSelf.err

C8_Witness ==
    /\ last.op = "clone_with"
    /\ Len(last.self.path) > 1
    /\ last.value.tag # last.self.value.tag
    /\ ~Path_as_integer(last.out).ok
    /\ ~Path_as_integer(last.self).ok

(* C9: same_type holds exactly of two values with the same variant tag,
   whatever their payloads; it is reflexive, symmetric and transitive, and
   agrees with equality of type_str. *)
C9_SameTypeIsTagEquality ==
    last.op = "same_type"
        => /\ last.ab <=> last.a.tag = last.b.tag
           /\ last.aa
           /\ last.ab <=> last.ba
           /\ last.ab /\ last.bc => last.ac
           /\ last.ab <=> type_str(last.a) = type_str(last.b)

C9_Witness ==
    /\ last.op = "same_type"
    /\ last.a.tag = "Table"
    /\ last.b.tag = "Table"
    /\ last.a # last.b
    /\ last.ab
    /\ last.bc
    /\ last.ac

(* C10: a cursor reached from Path::new(root, d) by successful table_property
   calls with keys k1..kn has components k1..kn, the value found from root by
   looking up k1..kn in turn, and the description of the last call (d for
   n = 0); a further step succeeds exactly when the node is a table holding
   the key; and an extraction matching the leaf's variant returns its
   payload. *)
C10_ChainFollowsTree ==
    pure =>
        /\ components(cur) = ChainKeys(chain)
        /\ Walk(root, ChainKeys(chain)) = Some(value(cur))
        /\ description(cur) = IF Len(chain) = 0 THEN root_desc ELSE chain[Len(chain)].desc
        /\ last.op = "table_property"
              => LET before == IF last.out.ok THEN SubSeq(chain, 1, Len(chain) - 1)
                               ELSE chain
                     here == Walk(root, ChainKeys(before))
                 IN  /\ here.some
                     /\ last.out.ok <=> here.val.tag = "Table" /\ last.name \in DOMAIN here.val.val
                     /\ last.out.ok <=> Walk(root, Append(ChainKeys(before), last.name)).some
        /\ last.op \in ExtractOps /\ VariantOf(last.op) = value(cur).tag
              => last.out = Ok(Walk(root, ChainKeys(chain)).val.val)

C10_Witness ==
    /\ pure
    /\ root = Table([a |-> Table([b |-> Integer(5)]), x |-> String("hello")])
    /\ ChainKeys(chain) = <<"a", "b">>
    /\ last.op = "as_integer"
    /\ last.out = Ok(5)

====
